---- MODULE Spec2Model ----
(***************************************************************************)
(* A model of graviola's AES-GCM driver (src/mid/aes_gcm.rs) and of its    *)
(* RSA public operation (src/mid/rsa_pub.rs).                              *)
(*                                                                         *)
(* Bytes are 0..255, blocks are sequences of 16 bytes, and every           *)
(* exclusive-or, AES round and GF(2^128) product is computed, so that a    *)
(* tag is the tag the library computes for the same inputs.                *)
(***************************************************************************)
EXTENDS Integers, Sequences, FiniteSets, TLC

(***************************************************************************)
(* Bytes and byte strings.                                                 *)
(***************************************************************************)

\* a ^ b on 4-bit values, indexed from 1.
Xor4 ==
  <<
    << 0,  1,  2,  3,  4,  5,  6,  7,  8,  9, 10, 11, 12, 13, 14, 15>>,
    << 1,  0,  3,  2,  5,  4,  7,  6,  9,  8, 11, 10, 13, 12, 15, 14>>,
    << 2,  3,  0,  1,  6,  7,  4,  5, 10, 11,  8,  9, 14, 15, 12, 13>>,
    << 3,  2,  1,  0,  7,  6,  5,  4, 11, 10,  9,  8, 15, 14, 13, 12>>,
    << 4,  5,  6,  7,  0,  1,  2,  3, 12, 13, 14, 15,  8,  9, 10, 11>>,
    << 5,  4,  7,  6,  1,  0,  3,  2, 13, 12, 15, 14,  9,  8, 11, 10>>,
    << 6,  7,  4,  5,  2,  3,  0,  1, 14, 15, 12, 13, 10, 11,  8,  9>>,
    << 7,  6,  5,  4,  3,  2,  1,  0, 15, 14, 13, 12, 11, 10,  9,  8>>,
    << 8,  9, 10, 11, 12, 13, 14, 15,  0,  1,  2,  3,  4,  5,  6,  7>>,
    << 9,  8, 11, 10, 13, 12, 15, 14,  1,  0,  3,  2,  5,  4,  7,  6>>,
    <<10, 11,  8,  9, 14, 15, 12, 13,  2,  3,  0,  1,  6,  7,  4,  5>>,
    <<11, 10,  9,  8, 15, 14, 13, 12,  3,  2,  1,  0,  7,  6,  5,  4>>,
    <<12, 13, 14, 15,  8,  9, 10, 11,  4,  5,  6,  7,  0,  1,  2,  3>>,
    <<13, 12, 15, 14,  9,  8, 11, 10,  5,  4,  7,  6,  1,  0,  3,  2>>,
    <<14, 15, 12, 13, 10, 11,  8,  9,  6,  7,  4,  5,  2,  3,  0,  1>>,
    <<15, 14, 13, 12, 11, 10,  9,  8,  7,  6,  5,  4,  3,  2,  1,  0>>
  >>

\* a ^ b on bytes.
Xor(a, b) ==
  Xor4[(a \div 16) + 1][(b \div 16) + 1] * 16 + Xor4[(a % 16) + 1][(b % 16) + 1]

\* A byte string given by its elements, with every element computed once.
Tuple(f) == f \o << >>

\* e, with v computed first: a loop computes each intermediate value before
\* the next step reads it, as the program does.
Then(v, e) == IF v = v THEN e ELSE e

\* F(v), with v evaluated first and once: a local binding of Rust.
Let(v, F(_)) == CASE v = v -> F(v)

\* n bytes of value b ([b; n]).
Repeat(b, n) == Tuple([i \in 1..n |-> b])

\* zip(s, t) with ^, over the shorter of the two.
XorBytes(s, t) ==
  LET n == IF Len(s) < Len(t) THEN Len(s) ELSE Len(t)
  IN  Tuple([i \in 1..n |-> Xor(s[i], t[i])])

(***************************************************************************)
(* AES (FIPS 197): AesKey::new expands the key, AesKey::encrypt_block      *)
(* encrypts one 16-byte block.                                             *)
(***************************************************************************)

SBox ==
  <<
     99, 124, 119, 123, 242, 107, 111, 197,  48,   1, 103,  43, 254, 215, 171, 118,
    202, 130, 201, 125, 250,  89,  71, 240, 173, 212, 162, 175, 156, 164, 114, 192,
    183, 253, 147,  38,  54,  63, 247, 204,  52, 165, 229, 241, 113, 216,  49,  21,
      4, 199,  35, 195,  24, 150,   5, 154,   7,  18, 128, 226, 235,  39, 178, 117,
      9, 131,  44,  26,  27, 110,  90, 160,  82,  59, 214, 179,  41, 227,  47, 132,
     83, 209,   0, 237,  32, 252, 177,  91, 106, 203, 190,  57,  74,  76,  88, 207,
    208, 239, 170, 251,  67,  77,  51, 133,  69, 249,   2, 127,  80,  60, 159, 168,
     81, 163,  64, 143, 146, 157,  56, 245, 188, 182, 218,  33,  16, 255, 243, 210,
    205,  12,  19, 236,  95, 151,  68,  23, 196, 167, 126,  61, 100,  93,  25, 115,
     96, 129,  79, 220,  34,  42, 144, 136,  70, 238, 184,  20, 222,  94,  11, 219,
    224,  50,  58,  10,  73,   6,  36,  92, 194, 211, 172,  98, 145, 149, 228, 121,
    231, 200,  55, 109, 141, 213,  78, 169, 108,  86, 244, 234, 101, 122, 174,   8,
    186, 120,  37,  46,  28, 166, 180, 198, 232, 221, 116,  31,  75, 189, 139, 138,
    112,  62, 181, 102,  72,   3, 246,  14,  97,  53,  87, 185, 134, 193,  29, 158,
    225, 248, 152,  17, 105, 217, 142, 148, 155,  30, 135, 233, 206,  85,  40, 223,
    140, 161, 137,  13, 191, 230,  66, 104,  65, 153,  45,  15, 176,  84, 187,  22
  >>


\* Multiplication by x in GF(2^8) modulo x^8 + x^4 + x^3 + x + 1.
XTime(a) == IF a >= 128 THEN Xor((2 * a) % 256, 27) ELSE 2 * a

SubWord(w) == <<SBox[w[1] + 1], SBox[w[2] + 1], SBox[w[3] + 1], SBox[w[4] + 1]>>

RotWord(w) == <<w[2], w[3], w[4], w[1]>>

\* The round constant of round i >= 1: x^(i-1).
RECURSIVE Rcon(_)
Rcon(i) == IF i = 1 THEN 1 ELSE XTime(Rcon(i - 1))

\* The key schedule's words w[1..n], each 4 bytes, from the first nk.
RECURSIVE ExpandWords(_, _, _)
ExpandWords(w, nk, n) ==
  IF Len(w) >= n THEN w
  ELSE LET i    == Len(w)
           prev == w[i]
           t    == IF i % nk = 0
                     THEN LET s == SubWord(RotWord(prev))
                          IN  <<Xor(s[1], Rcon(i \div nk)), s[2], s[3], s[4]>>
                     ELSE IF nk > 6 /\ i % nk = 4 THEN SubWord(prev)
                     ELSE prev
       IN  ExpandWords(Append(w, XorBytes(w[i - nk + 1], t)), nk, n)

\* AesKey::new(key): the round keys, rounds + 1 blocks of 16 bytes.
AesKeyNew(key) ==
  LET nk     == Len(key) \div 4
      rounds == nk + 6
      w0     == [i \in 1..nk |-> SubSeq(key, 4 * i - 3, 4 * i)]
      w      == ExpandWords(Tuple(w0), nk, 4 * (rounds + 1))
  IN  [rounds |-> rounds,
       round_keys |-> Tuple([r \in 1..(rounds + 1) |->
                        w[4 * r - 3] \o w[4 * r - 2] \o w[4 * r - 1] \o w[4 * r]])]

\* SubBytes then ShiftRows on a column-major state.
SubShift(s) ==
  Tuple([i \in 1..16 |-> SBox[s[((i - 1 + 4 * ((i - 1) % 4)) % 16) + 1] + 1]])

MixColumn(a) ==
  LET d == [i \in 1..4 |-> XTime(a[i])]
  IN  <<Xor(Xor(d[1], Xor(d[2], a[2])), Xor(a[3], a[4])),
        Xor(Xor(a[1], d[2]), Xor(Xor(d[3], a[3]), a[4])),
        Xor(Xor(a[1], a[2]), Xor(d[3], Xor(d[4], a[4]))),
        Xor(Xor(Xor(d[1], a[1]), a[2]), Xor(a[3], d[4]))>>

MixColumns(s) ==
  MixColumn(SubSeq(s, 1, 4)) \o MixColumn(SubSeq(s, 5, 8))
    \o MixColumn(SubSeq(s, 9, 12)) \o MixColumn(SubSeq(s, 13, 16))

RECURSIVE AesRounds(_, _, _)
AesRounds(key, s, r) ==
  LET t == SubShift(s)
      u == XorBytes(MixColumns(t), key.round_keys[r + 1])
  IN  IF r = key.rounds
        THEN XorBytes(t, key.round_keys[r + 1])
        ELSE Then(u, AesRounds(key, u, r + 1))

\* AesKey::encrypt_block: the block, encrypted.
EncryptBlock(key, block) == AesRounds(key, XorBytes(block, key.round_keys[1]), 1)

(***************************************************************************)
(* GHASH: the keyed hash of GCM over GF(2^128).  A 128-bit value is its 16 *)
(* big-endian bytes; the coefficient of x^0 is the top bit of byte 1.      *)
(***************************************************************************)

\* v * x modulo x^128 + x^7 + x^2 + x + 1.
MulX(v) ==
  Tuple([i \in 1..16 |->
    LET b == (v[i] \div 2) + (IF i > 1 THEN (v[i - 1] % 2) * 128 ELSE 0)
    IN  IF i = 1 /\ v[16] % 2 = 1 THEN Xor(b, 225) ELSE b])

\* What the four bits r shifted out by a product with x^4 fold back into
\* bytes 1 and 2.
Red4 ==
  Tuple([r \in 1..16 |->
           SubSeq(MulX(MulX(MulX(MulX(Repeat(0, 15) \o <<r - 1>>)))), 1, 2)])

\* v * x^4.
MulX4(v) ==
  LET red == Red4[(v[16] % 16) + 1]
  IN  Tuple([i \in 1..16 |->
        LET b == (v[i] \div 16) + (IF i > 1 THEN (v[i - 1] % 16) * 16 ELSE 0)
        IN  IF i <= 2 THEN Xor(b, red[i]) ELSE b])

\* GhashTable::new(h): the products of H with the sixteen polynomials of
\* degree below 4, entry n + 1 for the four bits n (bit 8 is x^0).
GhashTableNew(h) ==
  LET m8 == h
      m4 == MulX(m8)
      m2 == MulX(m4)
      m1 == MulX(m2)
  IN  Tuple([k \in 1..16 |->
        LET n == k - 1
            a == IF n >= 8 THEN m8 ELSE Repeat(0, 16)
            b == IF (n \div 4) % 2 = 1 THEN XorBytes(a, m4) ELSE a
            c == IF (n \div 2) % 2 = 1 THEN XorBytes(b, m2) ELSE b
        IN  IF n % 2 = 1 THEN XorBytes(c, m1) ELSE c])

\* Horner's rule over the bytes i..1 of y, two steps of four bits a byte.
RECURSIVE GfMulFrom(_, _, _, _)
GfMulFrom(table, y, z, i) ==
  IF i = 0 THEN z
  ELSE LET lo == XorBytes(MulX4(z), table[(y[i] % 16) + 1])
           hi == XorBytes(MulX4(lo), table[(y[i] \div 16) + 1])
       IN  Then(hi, GfMulFrom(table, y, hi, i - 1))

\* y * H.
GfMul(table, y) == GfMulFrom(table, y, Repeat(0, 16), 16)

\* Ghash::new(table): the accumulator X = 0.  absorbed records the blocks
\* given to the accumulator, in order (it is not read by the program).
GhashNew(table) == [table |-> table, x |-> Repeat(0, 16), absorbed |-> << >>]

\* One block: X <- (X ^ block) * H.
GhashOneBlock(g, block) ==
  [g EXCEPT !.x = GfMul(g.table, XorBytes(g.x, block)),
            !.absorbed = Append(g.absorbed, block)]

\* Ghash::add(bytes): the blocks of bytes from offset off on, the last one
\* padded with zeros on the right.
RECURSIVE GhashAddFrom(_, _, _)
GhashAddFrom(g, bytes, off) ==
  IF off >= Len(bytes) THEN g
  ELSE LET n     == IF Len(bytes) - off < 16 THEN Len(bytes) - off ELSE 16
           block == SubSeq(bytes, off + 1, off + n) \o Repeat(0, 16 - n)
       IN  Let(GhashOneBlock(g, block),
               LAMBDA g1 : GhashAddFrom(g1, bytes, off + 16))

GhashAdd(g, bytes) == GhashAddFrom(g, bytes, 0)

\* Ghash::into_bytes: X.
GhashIntoBytes(g) == g.x

(***************************************************************************)
(* ct_equal(a, b): the fold of a[i] ^ b[i] is zero, and the lengths agree. *)
(***************************************************************************)

RECURSIVE OrFold(_, _)
OrFold(d, i) == IF i = 0 THEN FALSE ELSE d[i] # 0 \/ OrFold(d, i - 1)

ct_equal(a, b) ==
  LET diff == XorBytes(a, b)
  IN  Len(a) = Len(b) /\ ~OrFold(diff, Len(diff))

(***************************************************************************)
(* low::generic::aes_gcm: AAD into GHASH, then counter mode over the       *)
(* buffer, block by block, with the ciphertext of each block into GHASH.   *)
(***************************************************************************)

\* The counter block with its last four bytes, a big-endian u32, plus one
\* (wrapping).
Inc32(counter) ==
  LET b(i) == counter[i]
      c16  == IF b(16) = 255 THEN 1 ELSE 0
      c15  == IF c16 = 1 /\ b(15) = 255 THEN 1 ELSE 0
      c14  == IF c15 = 1 /\ b(14) = 255 THEN 1 ELSE 0
  IN  SubSeq(counter, 1, 12)
        \o <<(b(13) + c14) % 256, (b(14) + c15) % 256,
             (b(15) + c16) % 256, (b(16) + 1) % 256>>

\* The blocks of inout from offset off on.  encrypting: the block is
\* XORed, then absorbed; decrypting: absorbed, then XORed.
RECURSIVE CtrFrom(_, _, _, _, _, _)
CtrFrom(key, ghash, counter, inout, off, encrypting) ==
  IF off >= Len(inout) THEN [ghash |-> ghash, inout |-> inout]
  ELSE LET n      == IF Len(inout) - off < 16 THEN Len(inout) - off ELSE 16
           before == SubSeq(inout, off + 1, off + n)
       IN  Let(Inc32(counter), LAMBDA next :
           Let(XorBytes(before, EncryptBlock(key, next)), LAMBDA after :
           Let(GhashAdd(ghash, IF encrypting THEN after ELSE before),
               LAMBDA ghash1 :
           Let(SubSeq(inout, 1, off) \o after
                 \o SubSeq(inout, off + n + 1, Len(inout)), LAMBDA inout1 :
           CtrFrom(key, ghash1, next, inout1, off + 16, encrypting)))))

aes_gcm_encrypt(key, ghash, counter, aad, cipher_inout) ==
  CtrFrom(key, GhashAdd(ghash, aad), counter, cipher_inout, 0, TRUE)

aes_gcm_decrypt(key, ghash, counter, aad, cipher_inout) ==
  CtrFrom(key, GhashAdd(ghash, aad), counter, cipher_inout, 0, FALSE)

(***************************************************************************)
(* mid::aes_gcm::AesGcm.                                                   *)
(***************************************************************************)

\* u128::from_be_bytes: a u128 is held as its 16 big-endian bytes.
U128FromBe(bytes) == bytes

\* (n as u64).to_be_bytes(), for n < 2^31.
U64ToBe(n) ==
  <<0, 0, 0, 0, n \div 16777216, (n \div 65536) % 256, (n \div 256) % 256, n % 256>>

\* AesGcm::new(key).
AesGcmNew(key) ==
  LET k == AesKeyNew(key)
      h == EncryptBlock(k, Repeat(0, 16))
  IN  [key |-> k, gh |-> GhashTableNew(U128FromBe(h))]

\* nonce_to_y0 as it would be with the nonce left out of Y0.
nonce_to_y0_without_nonce(nonce) == Repeat(0, 12) \o <<0, 0, 0, 1>>

\* nonce_to_y0 as it would be with the counter of Y0 starting at zero.
nonce_to_y0_counter_zero(nonce) == nonce \o <<0, 0, 0, 0>>

\* AesGcm::nonce_to_y0(nonce).
nonce_to_y0(nonce) == nonce \o <<0, 0, 0, 1>>

\* The length block of encrypt and decrypt.
Lengths(aad, cipher_inout) ==
  U64ToBe(Len(aad) * 8) \o U64ToBe(Len(cipher_inout) * 8)

\* encrypt as it would be with the lengths of the length block in bytes.
AesGcmEncryptLengthsInBytes(self, nonce, aad, cipher_inout) ==
  Let(nonce_to_y0(nonce), LAMBDA counter :
  Let(EncryptBlock(self.key, counter), LAMBDA e_y0 :
  Let(aes_gcm_encrypt(self.key, GhashNew(self.gh), counter, aad, cipher_inout),
      LAMBDA low :
  Let(GhashAdd(low.ghash, U64ToBe(Len(aad)) \o U64ToBe(Len(low.inout))),
      LAMBDA ghash1 :
      [cipher_inout |-> low.inout,
       tag_out      |-> XorBytes(GhashIntoBytes(ghash1), e_y0),
       absorbed     |-> ghash1.absorbed]))))

\* AesGcm::encrypt(nonce, aad, cipher_inout, tag_out): the buffer and the
\* tag it writes.
AesGcmEncrypt(self, nonce, aad, cipher_inout) ==
  Let(nonce_to_y0(nonce), LAMBDA counter :
  Let(EncryptBlock(self.key, counter), LAMBDA e_y0 :
  Let(aes_gcm_encrypt(self.key, GhashNew(self.gh), counter, aad, cipher_inout),
      LAMBDA low :
  Let(GhashAdd(low.ghash, Lengths(aad, low.inout)), LAMBDA ghash1 :
  Let(GhashIntoBytes(ghash1), LAMBDA final_xi :
      [cipher_inout |-> low.inout,
       tag_out      |-> XorBytes(final_xi, e_y0),
       absorbed     |-> ghash1.absorbed])))))

\* decrypt as it would be without cipher_inout.fill(0x00).
AesGcmDecryptKeepsBuffer(self, nonce, aad, cipher_inout, tag) ==
  Let(nonce_to_y0(nonce), LAMBDA counter :
  Let(EncryptBlock(self.key, counter), LAMBDA e_y0 :
  Let(aes_gcm_decrypt(self.key, GhashNew(self.gh), counter, aad, cipher_inout),
      LAMBDA low :
  Let(GhashAdd(low.ghash, Lengths(aad, low.inout)), LAMBDA ghash1 :
  Let(XorBytes(GhashIntoBytes(ghash1), e_y0), LAMBDA actual_tag :
      [result       |-> IF ct_equal(actual_tag, tag)
                          THEN "Ok" ELSE "DecryptFailed",
       cipher_inout |-> low.inout,
       actual_tag   |-> actual_tag,
       absorbed     |-> ghash1.absorbed])))))

\* decrypt as it would be calling low::aes_gcm::encrypt, which gives the
\* bytes to GHASH after it has XORed them.
AesGcmDecryptAbsorbsAfterXor(self, nonce, aad, cipher_inout, tag) ==
  Let(nonce_to_y0(nonce), LAMBDA counter :
  Let(EncryptBlock(self.key, counter), LAMBDA e_y0 :
  Let(aes_gcm_encrypt(self.key, GhashNew(self.gh), counter, aad, cipher_inout),
      LAMBDA low :
  Let(GhashAdd(low.ghash, Lengths(aad, low.inout)), LAMBDA ghash1 :
  Let(XorBytes(GhashIntoBytes(ghash1), e_y0), LAMBDA actual_tag :
      [result       |-> IF ct_equal(actual_tag, tag)
                          THEN "Ok" ELSE "DecryptFailed",
       cipher_inout |-> IF ct_equal(actual_tag, tag)
                          THEN low.inout ELSE Repeat(0, Len(low.inout)),
       actual_tag   |-> actual_tag,
       absorbed     |-> ghash1.absorbed])))))

\* AesGcm::decrypt(nonce, aad, cipher_inout, tag): the result and the
\* buffer as the call leaves it.
AesGcmDecrypt(self, nonce, aad, cipher_inout, tag) ==
  Let(nonce_to_y0(nonce), LAMBDA counter :
  Let(EncryptBlock(self.key, counter), LAMBDA e_y0 :
  Let(aes_gcm_decrypt(self.key, GhashNew(self.gh), counter, aad, cipher_inout),
      LAMBDA low :
  Let(GhashAdd(low.ghash, Lengths(aad, low.inout)), LAMBDA ghash1 :
  Let(XorBytes(GhashIntoBytes(ghash1), e_y0), LAMBDA actual_tag :
      [result       |-> IF ct_equal(actual_tag, tag)
                          THEN "Ok" ELSE "DecryptFailed",
       cipher_inout |-> IF ct_equal(actual_tag, tag)
                          THEN low.inout ELSE Repeat(0, Len(low.inout)),
       actual_tag   |-> actual_tag,
       absorbed     |-> ghash1.absorbed])))))

(***************************************************************************)
(* low::PosInt<N>: a nonnegative integer in N words of 64 bits.  A value   *)
(* is its 8 * N bytes ("limbs"), least significant first; the arithmetic   *)
(* below works a byte at a time, so that no intermediate value exceeds     *)
(* 2^31.                                                                   *)
(***************************************************************************)

\* acc <- F(acc, i) for i = lo, ..., hi: a loop.
RECURSIVE Iterate(_, _, _, _)
Iterate(F(_, _), acc, lo, hi) ==
  IF lo > hi THEN acc
  ELSE IF lo = hi THEN F(acc, lo)
  ELSE Let(Iterate(F, acc, lo, (lo + hi) \div 2),
           LAMBDA half : Iterate(F, half, (lo + hi) \div 2 + 1, hi))

Pad(limbs, len) == limbs \o Repeat(0, len - Len(limbs))
Min(a, b) == IF a < b THEN a ELSE b
Max(a, b) == IF a > b THEN a ELSE b

\* The carry out of limb i of the limb sums s (each at most 510): the
\* nearest limb at or below i whose sum is not 255 decides it.
RECURSIVE CarryOut(_, _, _)
CarryOut(s, i, carry_in) ==
  IF i = 0 THEN carry_in
  ELSE IF s[i] # 255 THEN s[i] \div 256
  ELSE IF i % 8 = 0 /\ \A k \in (i - 7)..i : s[k] = 255
         THEN CarryOut(s, i - 8, carry_in)
  ELSE CarryOut(s, i - 1, carry_in)

\* a + b + carry_in, for a and b of as many limbs.
AddCarry(a, b, carry_in) ==
  Let(Tuple([i \in 1..Len(a) |-> a[i] + b[i]]), LAMBDA s :
      [limbs |-> Tuple([i \in 1..Len(a) |->
                          (s[i] + CarryOut(s, i - 1, carry_in)) % 256]),
       carry |-> CarryOut(s, Len(a), carry_in)])

AddLimbs(a, b) == AddCarry(a, b, 0)

\* a - b as a + ~b + 1: no carry out is a borrow.
SubLimbs(a, b) ==
  Let(AddCarry(a, Tuple([i \in 1..Len(b) |-> 255 - b[i]]), 1), LAMBDA r :
      [limbs |-> r.limbs, borrow |-> 1 - r.carry])

\* a * b in Len(a) + Len(b) limbs: the column sums with their carries.
MulLimbs(a, b) ==
  Iterate(LAMBDA acc, k :
            Let(Iterate(LAMBDA t, i : t + a[i] * b[k + 1 - i], acc.carry,
                        Max(1, k + 1 - Len(b)), Min(Len(a), k)),
                LAMBDA s : [limbs |-> Append(acc.limbs, s % 256),
                            carry |-> s \div 256]),
          [limbs |-> << >>, carry |-> 0], 1, Len(a) + Len(b)).limbs

\* rsa_pub.rs: the limits of a public modulus.  Scale divides the sizes of
\* the source, 2048 and 8192 bits, to sizes a model checker can multiply.
Scale == 16
MAX_PUBLIC_MODULUS_BITS == 8192 \div Scale
MAX_PUBLIC_MODULUS_WORDS == MAX_PUBLIC_MODULUS_BITS \div 64
MAX_PUBLIC_MODULUS_BYTES == MAX_PUBLIC_MODULUS_BITS \div 8
MIN_PUBLIC_MODULUS_BITS == 2048 \div Scale
MIN_PUBLIC_MODULUS_BYTES == MIN_PUBLIC_MODULUS_BITS \div 8

\* RsaPosInt = PosInt<MAX_PUBLIC_MODULUS_WORDS>: limbs, with zeros above.
RsaPosInt(limbs) == Pad(limbs, 8 * MAX_PUBLIC_MODULUS_WORDS)

\* PosInt::one().
PosIntOne == RsaPosInt(<<1>>)

RECURSIVE BitLen(_)
BitLen(b) == IF b = 0 THEN 0 ELSE 1 + BitLen(b \div 2)

\* The index of the most significant limb that is not zero, or 0.
TopLimb(a) ==
  IF \A i \in 1..Len(a) : a[i] = 0 THEN 0
  ELSE CHOOSE i \in 1..Len(a) : a[i] # 0 /\ \A j \in (i + 1)..Len(a) : a[j] = 0

\* The public lengths of a value: its bits, and the bytes and the words of
\* 64 bits that hold them.
len_bits(a) ==
  Let(TopLimb(a), LAMBDA top :
      IF top = 0 THEN 0 ELSE 8 * (top - 1) + BitLen(a[top]))
len_bytes(a) == (len_bits(a) + 7) \div 8
len_words(a) == (len_bits(a) + 63) \div 64

is_even(a) == a[1] % 2 = 0

\* less_than: the borrow of a - b.
less_than(a, b) == SubLimbs(a, b).borrow = 1

\* The low 64 bits of a * b, and -a mod 2^64.
Mul64(a, b) == SubSeq(MulLimbs(a, b), 1, 8)
Neg64(a) == SubLimbs(Repeat(0, 8), a).limbs

\* mont_neg_inverse: n0 = -n^-1 mod 2^64 from the low word of n.  The step
\* y <- y * (2 - n * y) doubles the correct low bits of the inverse; y = n
\* has 3, since n * n = 1 mod 8 for odd n.
mont_neg_inverse(n) ==
  Neg64(Iterate(LAMBDA y, i :
                  Mul64(y, AddLimbs(Pad(<<2>>, 8),
                                    Neg64(Mul64(SubSeq(n, 1, 8), y))).limbs),
                SubSeq(n, 1, 8), 1, 5))

\* 2 * a mod n, for a < n.
ModDouble(a, n) ==
  Let(AddLimbs(a, a), LAMBDA twice :
  Let(SubLimbs(twice.limbs, n), LAMBDA less :
      IF twice.carry = 1 \/ less.borrow = 0 THEN less.limbs ELSE twice.limbs))

\* The leading bit of n alone, 2^(len_bits(n) - 1), in the limbs of w words.
LeadingBit(n, w) ==
  Let(TopLimb(n), LAMBDA top :
      Tuple([i \in 1..(8 * w) |-> IF i = top THEN 2 ^ (BitLen(n[i]) - 1) ELSE 0]))

\* montifier: R^2 mod n for R = 2^(64 * len_words(n)), by modular doubling
\* from the leading bit of n, which is below n.
montifier(n) ==
  Let(len_words(n), LAMBDA w :
  Let(SubSeq(n, 1, 8 * w), LAMBDA m :
      RsaPosInt(Iterate(LAMBDA r, i : ModDouble(r, m), LeadingBit(n, w),
                        1, 128 * w - (len_bits(n) - 1)))))

\* mont_redc: t * R^-1 mod n for t < n * R.  Each word of t, from the
\* lowest, is cleared by adding the multiple q * n with q = word * n0; the
\* high half is the result, less n if it is not below n.
mont_redc(t, n, n0) ==
  Let(len_words(n), LAMBDA w :
  Let(SubSeq(n, 1, 8 * w), LAMBDA m :
  Let(Iterate(LAMBDA acc, i :
                Let(Mul64(SubSeq(acc, 8 * i - 7, 8 * i), n0), LAMBDA q :
                    AddLimbs(acc, Pad(Repeat(0, 8 * (i - 1)) \o MulLimbs(q, m),
                                      16 * w + 1)).limbs),
              Pad(SubSeq(t, 1, Min(Len(t), 16 * w)), 16 * w + 1), 1, w),
      LAMBDA reduced :
  Let(SubSeq(reduced, 8 * w + 1, 16 * w), LAMBDA high :
  Let(SubLimbs(high, m), LAMBDA less :
      RsaPosInt(IF reduced[16 * w + 1] = 1 \/ less.borrow = 0
                  THEN less.limbs ELSE high))))))

\* mont_mul(a, b, n, n0): a * b * R^-1 mod n.
mont_mul(a, b, n, n0) ==
  Let(8 * len_words(n), LAMBDA len :
      mont_redc(MulLimbs(SubSeq(a, 1, len), SubSeq(b, 1, len)), n, n0))

mont_sqr(a, n, n0) == mont_mul(a, a, n, n0)

\* to_montgomery: a * R mod n.  from_montgomery: a * R^-1 mod n.
to_montgomery(a, r2, n) == mont_mul(a, r2, n, mont_neg_inverse(n))
from_montgomery(a, n) == mont_redc(a, n, mont_neg_inverse(n))

(***************************************************************************)
(* mid::rsa_pub::RsaPublicKey.                                             *)
(***************************************************************************)

NoKey == [n |-> << >>, e |-> 0, montifier |-> << >>, one |-> << >>, n0 |-> << >>]
NoPosInt == << >>

\* new as it would be without the test of e.
RsaPublicKeyNewAnyExponent(n, e) ==
  Let(len_bytes(n), LAMBDA n_len :
      IF \/ is_even(n)
         \/ ~(n_len \in MIN_PUBLIC_MODULUS_BYTES..MAX_PUBLIC_MODULUS_BYTES)
        THEN [result |-> "OutOfRange", key |-> NoKey]
        ELSE Let(montifier(n), LAMBDA r2 :
             Let(mont_neg_inverse(n), LAMBDA n0 :
             Let(mont_mul(PosIntOne, r2, n, n0), LAMBDA one :
                 [result |-> "Ok",
                  key |-> [n |-> n, e |-> e, montifier |-> r2,
                           one |-> one, n0 |-> n0]]))))

\* RsaPublicKey::new(n, e).
RsaPublicKeyNew(n, e) ==
  Let(len_bytes(n), LAMBDA n_len :
      IF \/ is_even(n)
         \/ ~(n_len \in MIN_PUBLIC_MODULUS_BYTES..MAX_PUBLIC_MODULUS_BYTES)
         \/ e = 0
        THEN [result |-> "OutOfRange", key |-> NoKey]
        ELSE Let(montifier(n), LAMBDA r2 :
             Let(mont_neg_inverse(n), LAMBDA n0 :
             Let(mont_mul(PosIntOne, r2, n, n0), LAMBDA one :
                 [result |-> "Ok",
                  key |-> [n |-> n, e |-> e, montifier |-> r2,
                           one |-> one, n0 |-> n0]]))))

\* u32::ilog2, for e > 0 (it panics on 0).
RECURSIVE ilog2(_)
ilog2(e) == IF e <= 1 THEN 0 ELSE 1 + ilog2(e \div 2)

\* A round of the loop as it would be if first were never read as false.
PublicOpRoundNeverSquares(self, c_mont, loop, bit) ==
  IF (self.e \div (2 ^ bit)) % 2 = 1
    THEN [accum |-> mont_mul(loop.accum, c_mont, self.n, self.n0),
          first |-> TRUE, ops |-> Append(loop.ops, "mont_mul")]
    ELSE loop

\* One round of the loop of public_op, for the bit of that number.
PublicOpRound(self, c_mont, loop, bit) ==
  Let(IF loop.first THEN loop.accum ELSE mont_sqr(loop.accum, self.n, self.n0),
      LAMBDA tmp :
  Let(IF loop.first THEN loop.ops ELSE Append(loop.ops, "mont_sqr"),
      LAMBDA ops :
      IF (self.e \div (2 ^ bit)) % 2 = 1
        THEN [accum |-> mont_mul(tmp, c_mont, self.n, self.n0), first |-> FALSE,
              ops |-> Append(ops, "mont_mul")]
        ELSE [accum |-> tmp, first |-> FALSE, ops |-> ops]))

\* public_op as it would be rejecting only the values above n.
RsaPublicKeyPublicOpAcceptsModulus(self, c) ==
  IF less_than(self.n, c)
    THEN [result |-> "OutOfRange", m |-> NoPosInt, ops |-> << >>]
    ELSE Let(to_montgomery(c, self.montifier, self.n), LAMBDA c_mont :
         Let(ilog2(self.e), LAMBDA top :
         Let(Iterate(LAMBDA loop, k : PublicOpRound(self, c_mont, loop, top - k),
                     [accum |-> self.one, first |-> TRUE,
                      ops |-> <<"to_montgomery">>], 0, top),
             LAMBDA loop :
             [result |-> "Ok",
              m      |-> from_montgomery(loop.accum, self.n),
              ops    |-> Append(loop.ops, "from_montgomery")])))

\* public_op as it would be answering 0 for c = 0 without any arithmetic.
RsaPublicKeyPublicOpShortcutsZero(self, c) ==
  IF ~less_than(c, self.n)
    THEN [result |-> "OutOfRange", m |-> NoPosInt, ops |-> << >>]
    ELSE IF \A i \in 1..Len(c) : c[i] = 0
      THEN [result |-> "Ok", m |-> c, ops |-> << >>]
    ELSE Let(to_montgomery(c, self.montifier, self.n), LAMBDA c_mont :
         Let(ilog2(self.e), LAMBDA top :
         Let(Iterate(LAMBDA loop, k : PublicOpRound(self, c_mont, loop, top - k),
                     [accum |-> self.one, first |-> TRUE,
                      ops |-> <<"to_montgomery">>], 0, top),
             LAMBDA loop :
             [result |-> "Ok",
              m      |-> from_montgomery(loop.accum, self.n),
              ops    |-> Append(loop.ops, "from_montgomery")])))

\* RsaPublicKey::public_op(c): the result, and ops, the PosInt operations
\* the call made, in order.
RsaPublicKeyPublicOp(self, c) ==
  IF ~less_than(c, self.n)
    THEN [result |-> "OutOfRange", m |-> NoPosInt, ops |-> << >>]
    ELSE Let(to_montgomery(c, self.montifier, self.n), LAMBDA c_mont :
         IF self.e = 0
           THEN [result |-> "Panic", m |-> NoPosInt, ops |-> <<"to_montgomery">>]
           ELSE Let(ilog2(self.e), LAMBDA top :
                Let(Iterate(LAMBDA loop, k : PublicOpRound(self, c_mont, loop, top - k),
                            [accum |-> self.one, first |-> TRUE,
                             ops |-> <<"to_montgomery">>], 0, top),
                    LAMBDA loop :
                    [result |-> "Ok",
                     m      |-> from_montgomery(loop.accum, self.n),
                     ops    |-> Append(loop.ops, "from_montgomery")])))

(***************************************************************************)
(* The callers' inputs.                                                    *)
(***************************************************************************)

\* The longest AAD and the longest message a caller passes.
MaxAadLen == 17
MaxMsgLen == 17

\* n bytes, the i-th being a * i + b modulo 256.
Pattern(n, a, b) == Tuple([i \in 1..n |-> (a * i + b) % 256])

\* AES keys of 16, 32 and 24 bytes; the first is the key of tests::smoketest.
Keys == {Repeat(0, 16), Pattern(32, 11, 3), Pattern(24, 5, 1)}

\* Nonces; the first is the nonce of tests::smoketest.
Nonces == {Repeat(0, 12), Pattern(12, 7, 200)}

\* AADs and messages: empty, shorter than a block, a block and a partial
\* block.  Messages also: exactly one block.
Aads == {Pattern(n, 3, 100) : n \in {0, 1, MaxAadLen}}
Msgs == {Pattern(n, 13, 250) : n \in {0, 1, 16, MaxMsgLen}}

\* The inputs of the runs that change every bit in turn.
TamperKeys == {Pattern(32, 11, 3)}
TamperNonces == {Pattern(12, 7, 200)}
TamperAads == {Pattern(n, 3, 100) : n \in {0, MaxAadLen}}
TamperMsgs == {Pattern(n, 13, 250) : n \in {0, MaxMsgLen}}

\* An odd modulus of exactly that many bits (9 or more), its other bits
\* from a * i + b.
ModulusOfBits(bits, a, b) ==
  LET len == (bits + 7) \div 8
      k   == bits - 8 * (len - 1)
  IN  RsaPosInt(Tuple([i \in 1..len |->
        IF i = len THEN 2 ^ (k - 1) + ((a * i + b) % (2 ^ (k - 1)))
        ELSE IF i = 1 THEN 2 * ((a + b) % 128) + 1
        ELSE (a * i + b) % 256]))

\* n - 1 for an odd n, and n shifted right by one bit.
EvenBelow(n) == Tuple([i \in 1..Len(n) |-> IF i = 1 THEN n[i] - 1 ELSE n[i]])
HalfOf(n) ==
  Tuple([i \in 1..Len(n) |->
           (n[i] \div 2) + (IF i < Len(n) THEN (n[i + 1] % 2) * 128 ELSE 0)])

\* The largest value of an RsaPosInt.
LargestPosInt == RsaPosInt(Repeat(255, 8 * MAX_PUBLIC_MODULUS_WORDS))

\* The moduli a caller passes to RsaPublicKey::new: zero; 24 bits; a byte
\* less than the minimum; a bit less than the minimum; the minimum, odd and
\* even; some words more; the largest.
SmallestModulus == ModulusOfBits(MIN_PUBLIC_MODULUS_BITS, 13, 7)
Moduli ==
  { RsaPosInt(<< >>),
    ModulusOfBits(24, 5, 9),
    ModulusOfBits(MIN_PUBLIC_MODULUS_BITS - 8, 7, 3),
    ModulusOfBits(MIN_PUBLIC_MODULUS_BITS - 1, 11, 5),
    SmallestModulus,
    EvenBelow(SmallestModulus),
    ModulusOfBits(MIN_PUBLIC_MODULUS_BITS + 37, 17, 1) }

\* The exponents, and the pairs (n, e) a caller passes: 65537 is the
\* exponent of tests::smoke.
Exponents == {0, 1, 2, 3, 5, 6}
KeyInputs ==
  (Moduli \X Exponents)
    \cup {<<SmallestModulus, 65537>>, <<LargestPosInt, 3>>, <<LargestPosInt, 0>>}

\* The values a caller passes to public_op of a key of modulus n.
Ciphertexts(n) ==
  { RsaPosInt(<< >>), PosIntOne, RsaPosInt(<<2>>), HalfOf(n), EvenBelow(n), n,
    LargestPosInt }

(***************************************************************************)
(* The state: one AesGcm and its caller's buffers.                         *)
(***************************************************************************)

VARIABLES
  key,          \* the bytes AesGcm::new was given
  gcm,          \* the AesGcm
  nonce,        \* the caller's nonce
  aad,          \* the caller's AAD
  cipher_inout, \* the caller's in-place buffer
  tag,          \* the caller's tag (tag_out of encrypt, tag of decrypt)
  result,       \* what the last call returned
  pc,           \* the caller's position
  sent,         \* what encrypt was given and what it wrote
  received,     \* what decrypt was given and what it computed
  tampered      \* what was changed between encrypt and decrypt

gcm_vars ==
  <<key, gcm, nonce, aad, cipher_inout, tag, result, pc, sent, received, tampered>>


NoCall == [nonce |-> << >>, aad |-> << >>, cipher_inout |-> << >>, tag |-> << >>,
           absorbed |-> << >>]

(***************************************************************************)
(* The state: one RsaPublicKey and its caller.                             *)
(***************************************************************************)

VARIABLES
  rsa_n,        \* the modulus RsaPublicKey::new was given
  rsa_e,        \* the exponent RsaPublicKey::new was given
  rsa_new,      \* what RsaPublicKey::new returned
  rsa_key,      \* the RsaPublicKey, if one was constructed
  rsa_c,        \* the value public_op was given
  rsa_op,       \* what public_op returned, and the operations it made
  rsa_pc        \* the caller's position

rsa_vars == <<rsa_n, rsa_e, rsa_new, rsa_key, rsa_c, rsa_op, rsa_pc>>

vars == <<gcm_vars, rsa_vars>>

NoOp == [result |-> "none", m |-> NoPosInt, ops |-> << >>]

\* No RsaPublicKey is in use.
RsaIdle ==
  /\ rsa_n = NoPosInt /\ rsa_e = 0 /\ rsa_new = "none" /\ rsa_key = NoKey
  /\ rsa_c = NoPosInt /\ rsa_op = NoOp /\ rsa_pc = "idle"

\* No AesGcm is in use.
GcmIdle ==
  /\ key = << >> /\ gcm = << >>
  /\ nonce = << >> /\ aad = << >> /\ cipher_inout = << >> /\ tag = << >>
  /\ result = "none" /\ pc = "idle"
  /\ sent = NoCall /\ received = NoCall /\ tampered = "none"

\* The state after AesGcm::new(key).
GcmInit ==
  /\ key \in Keys
  /\ gcm = AesGcmNew(key)
  /\ nonce = << >> /\ aad = << >> /\ cipher_inout = << >> /\ tag = << >>
  /\ result = "none" /\ pc = "new"
  /\ sent = NoCall /\ received = NoCall /\ tampered = "none"
  /\ RsaIdle

\* The state after AesGcm::new(key), for the runs that change every bit.
TamperInit == GcmInit /\ key \in TamperKeys

\* The caller encrypts msg in place under (n, a).
GcmEncrypt(n, a, msg) ==
  /\ pc = "new"
  /\ \E out \in {AesGcmEncrypt(gcm, n, a, msg)} :
         /\ nonce' = n
         /\ aad' = a
         /\ cipher_inout' = out.cipher_inout
         /\ tag' = out.tag_out
         /\ sent' = [nonce |-> n, aad |-> a, cipher_inout |-> msg,
                     tag |-> out.tag_out, absorbed |-> out.absorbed]
  /\ result' = "unit"
  /\ pc' = "encrypted"
  /\ UNCHANGED <<key, gcm, received, tampered>>
  /\ UNCHANGED rsa_vars

\* The byte string s with bit b of its byte i flipped.
FlipBit(s, i, b) ==
  LET p == IF b = 0 THEN 1 ELSE IF b = 1 THEN 2 ELSE IF b = 2 THEN 4
           ELSE IF b = 3 THEN 8 ELSE IF b = 4 THEN 16 ELSE IF b = 5 THEN 32
           ELSE IF b = 6 THEN 64 ELSE 128
  IN  Tuple([j \in 1..Len(s) |-> IF j = i THEN Xor(s[j], p) ELSE s[j]])

\* One bit of the ciphertext, the AAD, the nonce or the tag changes on the
\* way from encrypt to decrypt.
GcmTamperCipher(i, b) ==
  /\ pc = "encrypted" /\ i \in 1..Len(cipher_inout)
  /\ cipher_inout' = FlipBit(cipher_inout, i, b)
  /\ tampered' = "cipher" /\ pc' = "tampered"
  /\ UNCHANGED <<key, gcm, nonce, aad, tag, result, sent, received>>
  /\ UNCHANGED rsa_vars

GcmTamperAad(i, b) ==
  /\ pc = "encrypted" /\ i \in 1..Len(aad)
  /\ aad' = FlipBit(aad, i, b)
  /\ tampered' = "aad" /\ pc' = "tampered"
  /\ UNCHANGED <<key, gcm, nonce, cipher_inout, tag, result, sent, received>>
  /\ UNCHANGED rsa_vars

GcmTamperNonce(i, b) ==
  /\ pc = "encrypted" /\ i \in 1..Len(nonce)
  /\ nonce' = FlipBit(nonce, i, b)
  /\ tampered' = "nonce" /\ pc' = "tampered"
  /\ UNCHANGED <<key, gcm, aad, cipher_inout, tag, result, sent, received>>
  /\ UNCHANGED rsa_vars

GcmTamperTag(i, b) ==
  /\ pc = "encrypted" /\ i \in 1..Len(tag)
  /\ tag' = FlipBit(tag, i, b)
  /\ tampered' = "tag" /\ pc' = "tampered"
  /\ UNCHANGED <<key, gcm, nonce, aad, cipher_inout, result, sent, received>>
  /\ UNCHANGED rsa_vars

\* The tags a caller may pass instead of the one encrypt wrote: shorter,
\* longer, empty, all zero.
OtherTags(t) ==
  {SubSeq(t, 1, 15), SubSeq(t, 1, 1), << >>, t \o <<0>>, Repeat(0, 16)} \ {t}

GcmReplaceTag(t) ==
  /\ tag' = t
  /\ tampered' = "tag_replaced" /\ pc' = "tampered"
  /\ UNCHANGED <<key, gcm, nonce, aad, cipher_inout, result, sent, received>>
  /\ UNCHANGED rsa_vars

\* The caller decrypts its buffer in place under its nonce, AAD and tag.
GcmDecrypt ==
  /\ pc \in {"encrypted", "tampered"}
  /\ \E out \in {AesGcmDecrypt(gcm, nonce, aad, cipher_inout, tag)} :
         /\ result' = out.result
         /\ cipher_inout' = out.cipher_inout
         /\ received' = [nonce |-> nonce, aad |-> aad, cipher_inout |-> cipher_inout,
                         tag |-> out.actual_tag, absorbed |-> out.absorbed]
  /\ pc' = "decrypted"
  /\ UNCHANGED <<key, gcm, nonce, aad, tag, sent, tampered>>
  /\ UNCHANGED rsa_vars

GcmNext ==
  \/ \E n \in Nonces, a \in Aads, msg \in Msgs : GcmEncrypt(n, a, msg)
  \/ pc = "encrypted" /\ \E t \in OtherTags(tag) : GcmReplaceTag(t)
  \/ GcmDecrypt

TamperNext ==
  \/ \E n \in TamperNonces, a \in TamperAads, msg \in TamperMsgs : GcmEncrypt(n, a, msg)
  \/ \E i \in 1..MaxMsgLen, b \in 0..7 : GcmTamperCipher(i, b)
  \/ \E i \in 1..MaxAadLen, b \in 0..7 : GcmTamperAad(i, b)
  \/ \E i \in 1..12, b \in 0..7 : GcmTamperNonce(i, b)
  \/ \E i \in 1..16, b \in 0..7 : GcmTamperTag(i, b)
  \/ GcmDecrypt

\* The caller has a modulus and an exponent to make a key of.
RsaInit ==
  /\ GcmIdle
  /\ rsa_n = NoPosInt /\ rsa_e = 0 /\ rsa_new = "none" /\ rsa_key = NoKey
  /\ rsa_c = NoPosInt /\ rsa_op = NoOp /\ rsa_pc = "start"

\* The caller calls RsaPublicKey::new(n, e).
RsaNew(n, e) ==
  /\ rsa_pc = "start"
  /\ \E out \in {RsaPublicKeyNew(n, e)} :
         /\ rsa_new' = out.result
         /\ rsa_key' = out.key
         /\ rsa_pc' = IF out.result = "Ok" THEN "constructed" ELSE "rejected"
  /\ rsa_n' = n
  /\ rsa_e' = e
  /\ UNCHANGED <<rsa_c, rsa_op>>
  /\ UNCHANGED gcm_vars

\* The caller calls public_op(c) on its key.
RsaPublicOp(c) ==
  /\ rsa_pc = "constructed"
  /\ rsa_op' = RsaPublicKeyPublicOp(rsa_key, c)
  /\ rsa_c' = c
  /\ rsa_pc' = "done"
  /\ UNCHANGED <<rsa_n, rsa_e, rsa_new, rsa_key>>
  /\ UNCHANGED gcm_vars

RsaNext ==
  \/ \E k \in KeyInputs : RsaNew(k[1], k[2])
  \/ rsa_pc = "constructed" /\ \E c \in Ciphertexts(rsa_key.n) : RsaPublicOp(c)

Spec == GcmInit /\ [][GcmNext]_vars

SpecTamper == TamperInit /\ [][TamperNext]_vars

SpecRsa == RsaInit /\ [][RsaNext]_vars

(***************************************************************************)
(* What the program is said to do, each statement with a state that shows  *)
(* its case.                                                               *)
(***************************************************************************)

AllZero(s) == \A i \in 1..Len(s) : s[i] = 0

\* C1: whenever the tag decrypt computes differs from the tag the caller
\* gave (in a byte or in length), decrypt returns DecryptFailed, and
\* whenever it returns DecryptFailed the buffer has its length of before
\* and every byte of it is 0x00.
C1_DecryptFailureZeroesBuffer ==
  pc = "decrypted" =>
    /\ (received.tag # tag) => result = "DecryptFailed"
    /\ (result = "DecryptFailed") =>
         /\ Len(cipher_inout) = Len(received.cipher_inout)
         /\ AllZero(cipher_inout)

\* A call of decrypt with a tag one byte short has failed on a buffer of
\* the longest message.
C1_Witness ==
  /\ pc = "decrypted" /\ tampered = "tag_replaced"
  /\ Len(tag) = 15 /\ received.tag # tag
  /\ result = "DecryptFailed"
  /\ Len(received.cipher_inout) = MaxMsgLen /\ AllZero(cipher_inout)

\* C2: decrypt of what encrypt wrote, under the same key, nonce and AAD and
\* with the 16-byte tag encrypt wrote, returns Ok and leaves the message
\* encrypt was given in the buffer.
C2_RoundTrip ==
  (pc = "decrypted" /\ tampered = "none") =>
    /\ Len(tag) = 16 /\ tag = sent.tag
    /\ result = "Ok"
    /\ cipher_inout = sent.cipher_inout

\* The longest message under the longest AAD has made the round trip, by a
\* ciphertext that is not the message.
C2_Witness ==
  /\ pc = "decrypted" /\ tampered = "none" /\ result = "Ok"
  /\ Len(aad) = MaxAadLen /\ Len(cipher_inout) = MaxMsgLen
  /\ received.cipher_inout # cipher_inout

\* C3: with one bit of the ciphertext, of the AAD, of the nonce or of the
\* tag flipped between encrypt and decrypt, decrypt returns DecryptFailed
\* and leaves the buffer, at its length, all zero.
C3_TamperDetected ==
  (pc = "decrypted" /\ tampered \in {"cipher", "aad", "nonce", "tag"}) =>
    /\ result = "DecryptFailed"
    /\ Len(cipher_inout) = Len(sent.cipher_inout)
    /\ AllZero(cipher_inout)

\* Decrypt has failed on the longest message after a bit of the nonce was
\* flipped.
C3_Witness ==
  /\ pc = "decrypted" /\ tampered = "nonce" /\ nonce # sent.nonce
  /\ result = "DecryptFailed"
  /\ Len(sent.cipher_inout) = MaxMsgLen /\ AllZero(cipher_inout)

\* The bits of a value from the most significant, and the limbs of 2^(64 w).
RECURSIVE BitsOf(_)
BitsOf(e) == IF e = 0 THEN << >> ELSE Append(BitsOf(e \div 2), e % 2)
PowerOfWords(w) == Repeat(0, 8 * w) \o <<1>>

\* a < b, from the most significant limb in which they differ.
LessThanRef(a, b) ==
  \E i \in 1..Len(a) : a[i] < b[i] /\ \A j \in (i + 1)..Len(a) : a[j] = b[j]

\* v mod n, a bit of v at a time from the top.
ModLimbs(v, n) ==
  Iterate(LAMBDA r, k :
            LET i == 8 * Len(v) - k
                bit == (v[(i \div 8) + 1] \div (2 ^ (i % 8))) % 2
            IN  Let(ModDouble(r, n), LAMBDA d :
                  IF bit = 0 THEN d
                  ELSE LET inc == AddLimbs(d, Pad(<<1>>, Len(n))).limbs
                       IN  IF inc = n THEN Repeat(0, Len(n)) ELSE inc),
          Repeat(0, Len(n)), 1, 8 * Len(v))

MulMod(a, b, n) ==
  LET len == 8 * len_words(n)
  IN  RsaPosInt(ModLimbs(MulLimbs(SubSeq(a, 1, len), SubSeq(b, 1, len)), SubSeq(n, 1, len)))

\* c^e mod n, from the low bit of e up: c^e = (c^2)^(e div 2) * c^(e mod 2).
RECURSIVE ModExp(_, _, _)
ModExp(c, e, n) ==
  IF e = 0 THEN RsaPosInt(ModLimbs(<<1>>, SubSeq(n, 1, 8 * len_words(n))))
  ELSE IF e = 1 THEN MulMod(c, PosIntOne, n)
  ELSE Let(MulMod(c, c, n), LAMBDA square :
       Let(ModExp(square, e \div 2, n), LAMBDA rest :
           IF e % 2 = 1 THEN MulMod(rest, c, n) ELSE rest))

\* C4: RsaPublicKey::new returns OutOfRange for every modulus whose length
\* in bits is outside MIN_PUBLIC_MODULUS_BITS..MAX_PUBLIC_MODULUS_BITS.
C4_ModulusBitRange ==
  (rsa_pc \in {"constructed", "rejected", "done"}
     /\ ~(len_bits(rsa_n) \in MIN_PUBLIC_MODULUS_BITS..MAX_PUBLIC_MODULUS_BITS))
    => rsa_new = "OutOfRange"

\* C5: RsaPublicKey::new returns OutOfRange when n is even or e is 0, every
\* key there is has an odd n and an e other than 0, and public_op never
\* takes ilog2 of 0.
C5_OddModulusNonzeroExponent ==
  /\ (rsa_pc \in {"constructed", "rejected", "done"}
        /\ (rsa_n[1] % 2 = 0 \/ rsa_e = 0))
       => (rsa_new = "OutOfRange" /\ rsa_key = NoKey)
  /\ (rsa_key # NoKey) => (rsa_key.n[1] % 2 = 1 /\ rsa_key.e # 0)
  /\ rsa_op.result # "Panic"

\* new has rejected an odd modulus of the least permitted length for e = 0.
C5_Witness ==
  /\ rsa_pc = "rejected" /\ rsa_new = "OutOfRange"
  /\ rsa_n = SmallestModulus /\ rsa_e = 0

\* C6: public_op(c) returns OutOfRange exactly when c is not below n, and
\* then it has made no PosInt operation and has no value to return.
C6_RangeCheckFirst ==
  rsa_pc = "done" =>
    /\ (rsa_op.result = "OutOfRange") <=> ~LessThanRef(rsa_c, rsa_key.n)
    /\ (rsa_op.result = "OutOfRange") =>
         (rsa_op.ops = << >> /\ rsa_op.m = NoPosInt)

\* public_op has rejected c = n.
C6_Witness ==
  /\ rsa_pc = "done" /\ rsa_c = rsa_key.n
  /\ rsa_op.result = "OutOfRange" /\ rsa_op.ops = << >>

\* C7: the one of a key is R mod n, and public_op(c) for c below n returns
\* Ok with c^e mod n.
C7_PublicOpIsModExp ==
  /\ (rsa_key # NoKey) =>
       rsa_key.one =
         RsaPosInt(ModLimbs(PowerOfWords(len_words(rsa_key.n)),
                            SubSeq(rsa_key.n, 1, 8 * len_words(rsa_key.n))))
  /\ (rsa_pc = "done" /\ LessThanRef(rsa_c, rsa_key.n)) =>
       /\ rsa_op.result = "Ok"
       /\ rsa_op.m = ModExp(rsa_c, rsa_key.e, rsa_key.n)

\* public_op has returned, for e = 65537 and c about n / 2, a value that is
\* below n and is not c.
C7_Witness ==
  /\ rsa_pc = "done" /\ rsa_key.e = 65537 /\ rsa_c = HalfOf(rsa_key.n)
  /\ rsa_op.result = "Ok"
  /\ rsa_op.m # rsa_c /\ LessThanRef(rsa_op.m, rsa_key.n)

\* C8: encrypt of an empty message under an empty AAD absorbs the length
\* block of zeros alone and writes the tag AES_K(nonce || 00000001); for
\* the key and the nonce of zeros that is 58e2fccefa7e3061367f1d57a4e7455a.
C8_EmptyMessageTag ==
  (pc = "encrypted" /\ sent.aad = << >> /\ sent.cipher_inout = << >>) =>
    /\ cipher_inout = << >>
    /\ sent.absorbed = <<Repeat(0, 16)>>
    /\ tag = EncryptBlock(AesKeyNew(key), nonce \o <<0, 0, 0, 1>>)
    /\ (key = Repeat(0, 16) /\ nonce = Repeat(0, 12)) =>
         tag = <<88, 226, 252, 206, 250, 126, 48, 97,
                 54, 127, 29, 87, 164, 231, 69, 90>>

\* encrypt has written the tag of tests::smoketest.
C8_Witness ==
  /\ pc = "encrypted" /\ key = Repeat(0, 16) /\ nonce = Repeat(0, 12)
  /\ sent.aad = << >> /\ sent.cipher_inout = << >>
  /\ tag = <<88, 226, 252, 206, 250, 126, 48, 97,
             54, 127, 29, 87, 164, 231, 69, 90>>

\* The blocks of 16 bytes of a byte string, the last filled with zeros.
Blocks(bytes) ==
  Tuple([k \in 1..((Len(bytes) + 15) \div 16) |->
    Tuple([j \in 1..16 |->
      IF 16 * (k - 1) + j <= Len(bytes) THEN bytes[16 * (k - 1) + j] ELSE 0])])

\* n < 2^31 as a big-endian u64.
BigEndian64(n) ==
  Tuple([i \in 1..8 |-> IF i <= 4 THEN 0 ELSE (n \div (256 ^ (8 - i))) % 256])

\* What GHASH is to absorb for an AAD and a ciphertext.
ExpectedAbsorbed(a, c) ==
  Blocks(a) \o Blocks(c) \o <<BigEndian64(8 * Len(a)) \o BigEndian64(8 * Len(c))>>

\* C9: encrypt and decrypt give GHASH the blocks of the AAD, then the blocks
\* of the ciphertext (as encrypt wrote it, as decrypt received it), then the
\* length block; for the same nonce, AAD and ciphertext decrypt absorbs what
\* encrypt absorbed and computes the tag encrypt wrote.
C9_GhashOrder ==
  /\ (pc = "encrypted") =>
       sent.absorbed = ExpectedAbsorbed(sent.aad, cipher_inout)
  /\ (pc = "decrypted") =>
       /\ received.absorbed
            = ExpectedAbsorbed(received.aad, received.cipher_inout)
       /\ (tampered = "none") =>
            (received.absorbed = sent.absorbed /\ received.tag = sent.tag)

\* decrypt has absorbed two blocks of AAD, two of ciphertext and the length
\* block, and has then changed the buffer.
C9_Witness ==
  /\ pc = "decrypted" /\ tampered = "none"
  /\ Len(received.aad) > 16 /\ Len(received.cipher_inout) > 16
  /\ Len(received.absorbed) = 5
  /\ received.absorbed[5] = BigEndian64(8 * MaxAadLen) \o BigEndian64(8 * MaxMsgLen)
  /\ cipher_inout # received.cipher_inout

\* The operations of public_op for the bits of e from the k-th: a square
\* but for the first, a product where the bit is set.
RECURSIVE OpsOfBits(_, _)
OpsOfBits(bits, k) ==
  IF k > Len(bits) THEN << >>
  ELSE (IF k > 1 THEN <<"mont_sqr">> ELSE << >>)
         \o (IF bits[k] = 1 THEN <<"mont_mul">> ELSE << >>)
         \o OpsOfBits(bits, k + 1)

ExpectedOps(e) ==
  <<"to_montgomery">> \o OpsOfBits(BitsOf(e), 1) \o <<"from_montgomery">>

Count(ops, name) == Cardinality({i \in 1..Len(ops) : ops[i] = name})

\* C10: the operations of a call of public_op that returns Ok are those the
\* bits of e give, whatever c and n are: to_montgomery once, then
\* floor(log2 e) squares and popcount(e) products in the order of the bits,
\* then from_montgomery once.
C10_OpsDependOnExponentOnly ==
  (rsa_pc = "done" /\ rsa_op.result = "Ok") =>
    /\ rsa_op.ops = ExpectedOps(rsa_key.e)
    /\ Count(rsa_op.ops, "mont_sqr") = Len(BitsOf(rsa_key.e)) - 1
    /\ Count(rsa_op.ops, "mont_mul") = Count(BitsOf(rsa_key.e), 1)
    /\ Count(rsa_op.ops, "to_montgomery") = 1
    /\ Count(rsa_op.ops, "from_montgomery") = 1

\* public_op has made, for e = 5 and c = 0, the six operations of 101.
C10_Witness ==
  /\ rsa_pc = "done" /\ rsa_key.e = 5 /\ rsa_c = RsaPosInt(<< >>)
  /\ rsa_op.result = "Ok"
  /\ rsa_op.ops = <<"to_montgomery", "mont_mul", "mont_sqr", "mont_sqr",
                    "mont_mul", "from_montgomery">>
====
